---------------------------- MODULE Spec2Model ----------------------------
(***************************************************************************)
(* Canopy timber-cruise pipeline: contract validator, stand aggregator,    *)
(* owner-report engine and the run_pipeline driver of app.py.              *)
(*                                                                         *)
(* Numbers with a fractional part are held as integers in tenths (factors, *)
(* plot size) or in half-years (stand age); text cells are strings.        *)
(***************************************************************************)
EXTENDS Integers, Sequences, FiniteSets, TLC

VARIABLES
    pc,        \* position of run_pipeline: "idle", "validate", "aggregate", "report", "done"
    req,       \* the request fields run_pipeline read (app.py 51-61), or NoReq
    files,     \* artifacts present in the job's work directory, by name
    runs,      \* completed subprocess results, in start order: [stage, rc, stdout, stderr]
    result,    \* the dict run_pipeline returned, or NoResult
    call,      \* function harness: the call last made, [op, ...arguments]
    ret,       \* function harness: what that call returned or raised
    jobs,      \* two concurrent requests: each run's [pc, req, uid, runs, result, read, wrote]
    disk       \* two concurrent requests: the files under OUT_DIR, by <<uid, name>>

vars == <<pc, req, files, runs, result, call, ret, jobs, disk>>

\* the variables of the single run and of the function calls
one_run == <<pc, req, files, runs, result, call, ret>>

\* the variables of the two concurrent runs
two_runs == <<jobs, disk>>

----------------------------------------------------------------------------
(* Bounds of the model                                                     *)

MaxRows == 2          \* rows per input table
MaxFactor == 11       \* largest calibration multiplier, in tenths
MaxHalfAge == 70      \* largest stand age, in half-years (35 years)

----------------------------------------------------------------------------
(* Missing values                                                          *)

NaN == -999           \* numeric missing value (np.nan)
NA == "<NA>"          \* missing text cell (np.nan in an object column)
None == -998          \* Python None passed for a numeric parameter

\* pd.isna / pd.notna / dropna, on a numeric cell and on a text cell.
isna(x) == x = NaN
isna_text(x) == x = NA

----------------------------------------------------------------------------
(* Raw tree tables                                                         *)

AllColumns == <<"StandID", "StandAcres", "CruiseType", "Species", "DBH",
                "TopDIB", "Defect", "CruiseDate">>

TextColumns == {"StandID", "CruiseType", "Species", "CruiseDate"}

Range(s) == {s[i] : i \in DOMAIN s}

BlankOf(c) == IF c \in TextColumns THEN NA ELSE NaN

\* Rows the input tables are drawn from; each exercises one check.
SampleRows == <<
    [StandID |-> "S1",  StandAcres |-> 10,  CruiseType |-> "Plot",  Species |-> "LP",
     DBH |-> 10,  TopDIB |-> 5,   Defect |-> 0,   CruiseDate |-> "2024-01-05"],
    [StandID |-> "S2",  StandAcres |-> 20,  CruiseType |-> "Point", Species |-> "sp",
     DBH |-> 12,  TopDIB |-> 6,   Defect |-> 10,  CruiseDate |-> "01/05/2024"],
    [StandID |-> NA,    StandAcres |-> 10,  CruiseType |-> "Plot",  Species |-> NA,
     DBH |-> 10,  TopDIB |-> NaN, Defect |-> NaN, CruiseDate |-> NA],
    [StandID |-> "S1 ", StandAcres |-> 0,   CruiseType |-> "Plot",  Species |-> "LP",
     DBH |-> 10,  TopDIB |-> 5,   Defect |-> 0,   CruiseDate |-> "junk"],
    [StandID |-> "S2",  StandAcres |-> 20,  CruiseType |-> "Strip", Species |-> "LP",
     DBH |-> 12,  TopDIB |-> 6,   Defect |-> 10,  CruiseDate |-> "2024-01-05"],
    [StandID |-> "S1",  StandAcres |-> NaN, CruiseType |-> "Plot",  Species |-> "sp",
     DBH |-> 61,  TopDIB |-> 5,   Defect |-> 0,   CruiseDate |-> "2024-01-05"],
    [StandID |-> "S2",  StandAcres |-> 20,  CruiseType |-> "Plot",  Species |-> "LP",
     DBH |-> 10,  TopDIB |-> 11,  Defect |-> 0,   CruiseDate |-> "2024-01-05"],
    [StandID |-> "S1",  StandAcres |-> 10,  CruiseType |-> "Point", Species |-> "LP",
     DBH |-> 10,  TopDIB |-> 5,   Defect |-> 101, CruiseDate |-> "2024-01-05"] >>

\* A data frame: the columns it has, in file order, and its rows.  A row
\* holds a value only for the columns the frame has.
Frame(colset, rows) ==
    [columns |-> SelectSeq(AllColumns, LAMBDA c : c \in colset),
     rows    |-> [i \in DOMAIN rows |-> [c \in colset |-> rows[i][c]]]]

ColumnSets ==
    {Range(AllColumns)} \cup {Range(AllColumns) \ {c} : c \in Range(AllColumns)}
        \cup {{"StandAcres", "DBH"}}

RowSeqs(rowset) == UNION {[1..n -> rowset] : n \in 0..MaxRows}

RawTables == {Frame(cs, rows) : cs \in ColumnSets, rows \in RowSeqs(Range(SampleRows))}

Cols(df) == Range(df.columns)

----------------------------------------------------------------------------
(* Import contract (treesum_import_contract.json, app.py CONTRACT)         *)

CONTRACT ==
    [required_columns  |-> <<"StandID", "StandAcres", "CruiseType", "DBH">>,
     normalization     |-> [strip_whitespace |-> TRUE, upper_species_codes |-> TRUE],
     mapping_to_canopy |-> <<[dst |-> "stand_id",     src |-> "StandID"],
                             [dst |-> "acres",        src |-> "StandAcres"],
                             [dst |-> "dbh_in",       src |-> "DBH"],
                             [dst |-> "species_code", src |-> "Species"]>>]

\* Contracts the validator functions are exercised with.
Contracts ==
    {CONTRACT,
     [CONTRACT EXCEPT !.required_columns = <<"DBH", "StandID", "Defect">>,
                      !.normalization = [strip_whitespace |-> FALSE,
                                         upper_species_codes |-> FALSE]]}

----------------------------------------------------------------------------
(* Text conversions                                                        *)

\* str(x) of a text cell: a missing cell prints as "nan".
astype_str(x) == IF x = NA THEN "nan" ELSE x

\* str.strip()
strip(s) == IF s = "S1 " THEN "S1" ELSE s

\* str.upper()
upper(s) == CASE s = "sp"  -> "SP"
              [] s = "nan" -> "NAN"
              [] OTHER     -> s

\* pd.to_datetime(errors="coerce").dt.strftime("%Y-%m-%d")
to_date_text(x) == CASE x = "2024-01-05" -> "2024-01-05"
                     [] x = "01/05/2024" -> "2024-01-05"
                     [] OTHER            -> NA

\* DataFrame.to_csv followed by pd.read_csv: a missing cell is written as
\* the empty field, and the fields "" and "nan" are read back as missing.
csv_round_trip(x) == IF x = "nan" THEN NA ELSE x

\* Python's order on the strings that occur as stand ids.
StrRank(s) == CASE s = "S1"  -> 1
                [] s = "S1 " -> 2
                [] s = "S2"  -> 3
                [] s = "nan" -> 4
                [] OTHER     -> 5

RECURSIVE SortedStrs(_)
SortedStrs(S) ==
    IF S = {} THEN <<>>
    ELSE LET m == CHOOSE x \in S : \A y \in S : StrRank(x) <= StrRank(y)
         IN  <<m>> \o SortedStrs(S \ {m})

----------------------------------------------------------------------------
(* validator.py                                                            *)

StripCell(x) == strip(astype_str(x))
UpperCell(x) == upper(astype_str(x))

\* df[c] = the cells of df[c] converted by one of the three conversions
ConvertCell(how, x) ==
    CASE how = "strip" -> StripCell(x)
      [] how = "upper" -> UpperCell(x)
      [] OTHER         -> to_date_text(x)

MapColumn(df, c, how) ==
    [df EXCEPT !.rows = [i \in DOMAIN df.rows |->
                           [df.rows[i] EXCEPT ![c] = ConvertCell(how, @)]]]

RECURSIVE StripAll(_, _)
StripAll(df, cs) ==
    IF cs = {} THEN df
    ELSE LET c == CHOOSE x \in cs : TRUE
         IN  StripAll(MapColumn(df, c, "strip"), cs \ {c})

normalize(df, contract) ==
    LET d1 == IF contract.normalization.strip_whitespace
              THEN StripAll(df, Cols(df) \cap TextColumns)
              ELSE df
        d2 == IF contract.normalization.upper_species_codes /\ "Species" \in Cols(d1)
              THEN MapColumn(d1, "Species", "upper")
              ELSE d1
    IN  IF "CruiseDate" \in Cols(d2) THEN MapColumn(d2, "CruiseDate", "date") ELSE d2

ColumnValues(df, c) == {df.rows[i][c] : i \in DOMAIN df.rows}
dropna(S) == {x \in S : ~isna(x)}
dropna_text(S) == {x \in S : ~isna_text(x)}

MissingError(c) == [kind |-> "missing_column", column |-> c]
AcresError == [kind |-> "StandAcres must be > 0"]

\* MissingErrors stopping at the first absent column
MissingErrors_first_only(df, contract) ==
    LET absent(c) == c \notin Cols(df)
        miss == SelectSeq(contract.required_columns, absent)
    IN  IF miss = <<>> THEN <<>> ELSE <<MissingError(miss[1])>>

MissingErrors(df, contract) ==
    LET absent(c) == c \notin Cols(df)
        miss == SelectSeq(contract.required_columns, absent)
    IN  [i \in DOMAIN miss |-> MissingError(miss[i])]

AcresErrors(df) ==
    IF "StandAcres" \in Cols(df) /\ \E v \in dropna(ColumnValues(df, "StandAcres")) : v <= 0
    THEN <<AcresError>> ELSE <<>>

DbhWarnings(df) ==
    IF "DBH" \in Cols(df) /\ \E v \in dropna(ColumnValues(df, "DBH")) : v < 1 \/ v > 60
    THEN <<"Some DBH values are outside 1-60 inches">> ELSE <<>>

TopDibWarnings(df) ==
    IF /\ "TopDIB" \in Cols(df)
       /\ "DBH" \in Cols(df)
       /\ \E i \in DOMAIN df.rows :
            /\ ~isna(df.rows[i]["TopDIB"])
            /\ ~isna(df.rows[i]["DBH"])
            /\ df.rows[i]["TopDIB"] > df.rows[i]["DBH"]
    THEN <<"Some TopDIB > DBH rows found">> ELSE <<>>

DefectWarnings(df) ==
    IF "Defect" \in Cols(df) /\ \E v \in dropna(ColumnValues(df, "Defect")) : v < 0 \/ v > 100
    THEN <<"Some Defect values outside 0-100%">> ELSE <<>>

CruiseTypeWarnings(df) ==
    IF /\ "CruiseType" \in Cols(df)
       /\ \E v \in ColumnValues(df, "CruiseType") : astype_str(v) \notin {"Plot", "Point"}
    THEN <<"CruiseType contains values other than 'Plot' or 'Point'">> ELSE <<>>

\* validate with the DBH range check recorded as an error
validate_dbh_fatal(df, contract) ==
    [errors   |-> MissingErrors(df, contract) \o AcresErrors(df)
                    \o [i \in DOMAIN DbhWarnings(df) |-> [kind |-> DbhWarnings(df)[i]]],
     warnings |-> TopDibWarnings(df) \o DefectWarnings(df) \o CruiseTypeWarnings(df)]

validate(df, contract) ==
    [errors   |-> MissingErrors(df, contract) \o AcresErrors(df),
     warnings |-> DbhWarnings(df) \o TopDibWarnings(df) \o DefectWarnings(df)
                    \o CruiseTypeWarnings(df)]

CanopyColumns(contract) ==
    [i \in DOMAIN contract.mapping_to_canopy |-> contract.mapping_to_canopy[i].dst]

remap(df, contract) ==
    LET m == contract.mapping_to_canopy
        dsts == {m[i].dst : i \in DOMAIN m}
        srcOf(d) == (CHOOSE i \in DOMAIN m : m[i].dst = d)
        cell(r, d) == IF m[srcOf(d)].src \in Cols(df) THEN r[m[srcOf(d)].src]
                      ELSE BlankOf(m[srcOf(d)].src)
    IN  [columns |-> CanopyColumns(contract),
         rows    |-> [i \in DOMAIN df.rows |-> [d \in dsts |-> cell(df.rows[i], d)]]]

stands_detected(df) ==
    IF "StandID" \in Cols(df)
    THEN SortedStrs({astype_str(s) : s \in dropna_text(ColumnValues(df, "StandID"))})
    ELSE <<>>

\* validator.py main: the files it writes and the text it prints.  A tree
\* file pandas cannot load makes the process end with a traceback.
Traceback(what) == [kind |-> "traceback", error |-> what]
Line(text) == [kind |-> "line", text |-> text]

CanopyTextColumns == {"stand_id", "species_code"}

\* to_csv then read_csv of a whole frame.
csv_frame(df, textcols) ==
    [df EXCEPT !.rows = [i \in DOMAIN df.rows |->
        [c \in DOMAIN df.rows[i] |->
            IF c \in textcols THEN csv_round_trip(df.rows[i][c]) ELSE df.rows[i][c]]]]

validator_main(infile, contract) ==
    IF ~infile.readable
    THEN [rc |-> 1, stdout |-> <<>>, stderr |-> <<Traceback("read")>>, written |-> <<>>]
    ELSE LET df == normalize(infile.df, contract)
             ev == validate(df, contract)
             report == [kind |-> "import_report",
                        rows |-> Len(df.rows),
                        columns |-> df.columns,
                        errors |-> ev.errors,
                        warnings |-> ev.warnings,
                        stands_detected |-> stands_detected(df)]
         IN  [rc |-> 0,
              stdout |-> <<report, Line("Saved: normalized, canopy, report")>>,
              stderr |-> <<>>,
              written |-> <<[name |-> "out_treesum_normalized.csv", df |-> csv_frame(df, TextColumns)],
                            [name |-> "out_canopy_treelevel.csv",
                             df |-> csv_frame(remap(df, contract), CanopyTextColumns)],
                            [name |-> "out_import_report.json", report |-> report]>>]

----------------------------------------------------------------------------
(* Calibration documents                                                   *)

FactorNames == {"ba_factor", "pulp_factor"}
GroupKeys == {"ALL", "LP"}
FactorValues == {9, MaxFactor}

\* every mapping of some of the names to multipliers
InnerMaps == UNION {[ns -> FactorValues] : ns \in SUBSET FactorNames}

\* every calibration factor set {group: {name: multiplier}} over the keys
FactorSets == UNION {[gs -> InnerMaps] : gs \in SUBSET GroupKeys}

JsonDict(items) == [type |-> "dict", items |-> items]
JsonList == [type |-> "list"]

\* What the file at a path holds: a JSON value, or text json.load rejects.
Parsed(v) == [parses |-> TRUE, value |-> v]
Malformed == [parses |-> FALSE]

NoPath == [given |-> FALSE]
PathTo(doc) == [given |-> TRUE, doc |-> doc]

EmptyFactors == JsonDict(<<>>)

\* stand_aggregator.py load_calibration: no handler around open/json.load.
load_calibration(cal_path) ==
    IF ~cal_path.given THEN [raised |-> FALSE, value |-> EmptyFactors]
    ELSE IF cal_path.doc.parses THEN [raised |-> FALSE, value |-> cal_path.doc.value]
    ELSE [raised |-> TRUE]

\* owner_report_build_v3plus.py load_calibration: except Exception -> {}.
report_load_calibration(path) ==
    IF ~path.given THEN EmptyFactors
    ELSE IF path.doc.parses THEN path.doc.value
    ELSE EmptyFactors

One == 10     \* the multiplier 1.0, in tenths

\* get_factor with the fallback group consulted before the exact group
get_factor_all_first(factors, group, name) ==
    IF factors.type = "dict"
    THEN IF "ALL" \in DOMAIN factors.items /\ name \in DOMAIN factors.items["ALL"]
         THEN factors.items["ALL"][name]
         ELSE IF group \in DOMAIN factors.items /\ name \in DOMAIN factors.items[group]
              THEN factors.items[group][name]
              ELSE One
    ELSE One

\* stand_aggregator.py get_factor
get_factor(factors, group, name) ==
    IF factors.type = "dict"
    THEN IF group \in DOMAIN factors.items /\ name \in DOMAIN factors.items[group]
         THEN factors.items[group][name]
         ELSE IF "ALL" \in DOMAIN factors.items /\ name \in DOMAIN factors.items["ALL"]
              THEN factors.items["ALL"][name]
              ELSE One
    ELSE One

\* owner_report_build_v3plus.py get_factor
report_get_factor(factors, group, name) ==
    IF factors.type = "dict"
    THEN IF group \in DOMAIN factors.items /\ name \in DOMAIN factors.items[group]
         THEN factors.items[group][name]
         ELSE IF "ALL" \in DOMAIN factors.items /\ name \in DOMAIN factors.items["ALL"]
              THEN factors.items["ALL"][name]
              ELSE One
    ELSE One

----------------------------------------------------------------------------
(* stand_aggregator.py                                                     *)

\* df.groupby("stand_id"): the group keys in ascending order.  pandas drops
\* the rows whose key is missing (groupby's dropna=True default).
group_keys(df) ==
    SortedStrs(dropna_text(ColumnValues(df, "stand_id")))

group_rows(df, sid) == SelectSeq(df.rows, LAMBDA r : r["stand_id"] = sid)

\* Python truth value of an optional number: None and 0 are false.
truthy(x) == x # None /\ x # 0

ValueError(msg) == [raised |-> TRUE, error |-> msg, out |-> <<>>, written |-> <<>>,
                    stdout |-> <<>>]

\* The group key for calibration: the first non-missing value of species_col.
grp_key_of(df, g, species_col) ==
    IF /\ species_col # ""
       /\ species_col \in Cols(df)
       /\ \E i \in DOMAIN g : ~isna_text(g[i][species_col])
    THEN LET first == CHOOSE i \in DOMAIN g :
                        /\ ~isna_text(g[i][species_col])
                        /\ \A j \in 1..(i-1) : isna_text(g[j][species_col])
         IN  astype_str(g[first][species_col])
    ELSE "ALL"

\* The error, if any, the body of the loop raises for a group.
loop_error(df, cruise_type, plot_size_ac, baf) ==
    IF cruise_type = "Plot"
    THEN IF ~truthy(plot_size_ac) THEN "Need plot_size_ac for Plot cruises"
         ELSE IF "dbh_in" \notin Cols(df) THEN "KeyError: dbh_in" ELSE ""
    ELSE IF cruise_type = "Point"
    THEN IF ~truthy(baf) THEN "Need BAF for Point cruises"
         ELSE IF "dbh_in" \notin Cols(df) THEN "KeyError: dbh_in" ELSE ""
    ELSE "CruiseType must be Plot or Point"

\* One summary row.  The three metrics are real-valued; each is held as the
\* uncalibrated quantity (cruise type, size, tree count, diameters) and the
\* calibration multiplier applied to it.
summary_row(df, sid, cruise_type, plot_size_ac, baf, factors, species_col) ==
    LET g == group_rows(df, sid)
        acres == IF "acres" \in Cols(df) /\ ~isna(g[1]["acres"]) THEN g[1]["acres"] ELSE NaN
        grp_key == grp_key_of(df, g, species_col)
        n_trees == Len(g)
        raw == [cruise |-> cruise_type,
                size   |-> IF cruise_type = "Plot" THEN plot_size_ac ELSE baf,
                n      |-> n_trees,
                dbh    |-> [i \in DOMAIN g |-> g[i]["dbh_in"]]]
    IN  [stand_id          |-> sid,
         acres             |-> acres,
         trees_observed    |-> n_trees,
         tpa_live          |-> [of |-> raw, times |-> get_factor(factors, grp_key, "tpa_factor")],
         ba_sqft_ac        |-> [of |-> raw, times |-> get_factor(factors, grp_key, "ba_factor")],
         qmd_in            |-> [of |-> raw, times |-> get_factor(factors, grp_key, "qmd_factor")],
         calibration_group |-> grp_key]

aggregate(df, cruise_type, plot_size_ac, baf, calibration_json, species_col) ==
    IF "stand_id" \notin Cols(df) THEN ValueError("Missing stand_id column")
    ELSE LET cal == load_calibration(calibration_json)
             keys == group_keys(df)
         IN  IF cal.raised THEN ValueError("calibration document")
             ELSE IF keys # <<>> /\ loop_error(df, cruise_type, plot_size_ac, baf) # ""
             THEN ValueError(loop_error(df, cruise_type, plot_size_ac, baf))
             ELSE LET out == [i \in DOMAIN keys |->
                                summary_row(df, keys[i], cruise_type, plot_size_ac, baf,
                                            cal.value, species_col)]
                  IN  [raised |-> FALSE, error |-> "", out |-> out,
                       written |-> <<[name |-> "out_stand_summary.csv", rows |-> out]>>,
                       stdout |-> <<Line("Saved stand summary")>>]

\* The command line of stand_aggregator.py: argparse rejects a cruise type
\* other than Plot or Point with exit status 2; an exception ends with 1.
aggregator_main(tree_csv, cruise_type, size_value, calibration, species_col) ==
    IF cruise_type \notin {"Plot", "Point"}
    THEN [rc |-> 2, stdout |-> <<>>, stderr |-> <<Line("usage: invalid choice")>>,
          written |-> <<>>]
    ELSE LET r == IF cruise_type = "Plot"
                  THEN aggregate(tree_csv, "Plot", size_value, None, calibration, species_col)
                  ELSE aggregate(tree_csv, "Point", None, size_value, calibration, species_col)
         IN  IF r.raised
             THEN [rc |-> 1, stdout |-> <<>>, stderr |-> <<Traceback(r.error)>>,
                   written |-> <<>>]
             ELSE [rc |-> 0, stdout |-> r.stdout, stderr |-> <<>>, written |-> r.written]

----------------------------------------------------------------------------
(* owner_report_build_v3plus.py                                            *)

TODAY_YEAR == 2026

\* int(round(h / 2)) for an integer count h of halves: Python rounds a tie
\* to the even neighbour.
round_half(h) ==
    IF h % 2 = 0 THEN h \div 2
    ELSE LET f == (h - 1) \div 2 IN IF f % 2 = 0 THEN f ELSE f + 1

Max(a, b) == IF a >= b THEN a ELSE b

thin1_age == 15
thin2_age == 21
final_age == 30

\* auto_event_years without the one-year gap after the first thinning
auto_event_years_no_gap(age) ==
    IF isna(age)
    THEN [y1 |-> TODAY_YEAR + 2, y2 |-> TODAY_YEAR + 8, yf |-> TODAY_YEAR + 15]
    ELSE LET y1 == Max(TODAY_YEAR, TODAY_YEAR + round_half(2 * thin1_age - age))
             y2 == Max(y1, TODAY_YEAR + round_half(2 * thin2_age - age))
             yf == Max(y2 + 1, TODAY_YEAR + round_half(2 * final_age - age))
         IN  [y1 |-> y1, y2 |-> y2, yf |-> yf]

\* age is in half-years, or NaN.
auto_event_years(age) ==
    IF isna(age)
    THEN [y1 |-> TODAY_YEAR + 2, y2 |-> TODAY_YEAR + 8, yf |-> TODAY_YEAR + 15]
    ELSE LET y1 == Max(TODAY_YEAR, TODAY_YEAR + round_half(2 * thin1_age - age))
             y2 == Max(y1 + 1, TODAY_YEAR + round_half(2 * thin2_age - age))
             yf == Max(y2 + 1, TODAY_YEAR + round_half(2 * final_age - age))
         IN  [y1 |-> y1, y2 |-> y2, yf |-> yf]

Min(a, b) == IF a <= b THEN a ELSE b

\* ba in sq ft per acre and acres are whole numbers or NaN, removal_pct is in
\* hundredths; the tons returned are in ten-thousandths.  yield_per_ba is
\* 0.12 and final_tons_bounds (60, 150) at every call.
estimate_tons(ba, acres, event_type, removal_pct) ==
    IF isna(ba) \/ isna(acres) \/ acres <= 0 THEN 0
    ELSE IF event_type \in {"first_thin", "second_thin"}
    THEN Max(ba * removal_pct * 12 * acres, 0)
    ELSE LET tons_per_ac == Max(600, Min(1500, ba * 12))     \* in tenths
         IN  tons_per_ac * acres * 1000

Products == <<"pulp", "cns", "saw", "export">>

\* dict.get(key, default)
Get(d, k, default) == IF k \in DOMAIN d THEN d[k] ELSE default

\* The prices and costs build_report_v3plus takes from the price sheet.
prices_of(raw_prices) ==
    [k \in Range(Products) |-> Get(raw_prices, k, 0)]

costs_of(raw_prices) ==
    [logging  |-> [k \in Range(Products) |->
                     Get(raw_prices, CASE k = "pulp" -> "logging_cost_per_ton_pulp"
                                       [] k = "cns"  -> "logging_cost_per_ton_cns"
                                       [] k = "saw"  -> "logging_cost_per_ton_saw"
                                       [] OTHER      -> "logging_cost_per_ton_export", 0)],
     trucking_per_ton |-> Get(raw_prices, "trucking_rate_per_ton", 0),
     consulting_pct   |-> Get(raw_prices, "consulting_fee_pct", 0)]

RECURSIVE SumOver(_, _)
SumOver(f, S) ==
    IF S = {} THEN 0
    ELSE LET x == CHOOSE y \in S : TRUE IN f[x] + SumOver(f, S \ {x})

\* Money is held in hundredths so that the consulting percentage stays exact.
row_gross(r, prices) == SumOver([k \in Range(Products) |-> r.tons[k] * prices[k]],
                                Range(Products))

row_net100(r, prices, costs) ==
    LET gross == row_gross(r, prices)
        logging == SumOver([k \in Range(Products) |-> r.tons[k] * costs.logging[k]],
                           Range(Products))
        trucking == SumOver([k \in Range(Products) |-> r.tons[k] * costs.trucking_per_ton],
                            Range(Products))
    IN  100 * gross - 100 * logging - 100 * trucking - costs.consulting_pct * gross

cashflow_rows(events, prices, costs) ==
    [i \in DOMAIN events |->
        [year  |-> events[i].year,
         gross |-> row_gross(events[i], prices),
         net   |-> row_net100(events[i], prices, costs),
         years_from_now |-> Max(0, events[i].year - TODAY_YEAR)]]

\* series[t] for t = 0..max_h, held at index t + 1.
irr_series(cf) ==
    LET max_h == IF cf = <<>> THEN 0
                 ELSE CHOOSE h \in {cf[i].years_from_now : i \in DOMAIN cf} :
                        \A i \in DOMAIN cf : cf[i].years_from_now <= h
    IN  [t \in 1..(max_h + 1) |->
            SumOver([i \in DOMAIN cf |-> IF cf[i].years_from_now = t - 1 THEN cf[i].net ELSE 0],
                    DOMAIN cf)]

Sign(x) == IF x > 0 THEN 1 ELSE IF x < 0 THEN -1 ELSE 0

\* the number of sign changes along the non-zero entries of the series
SignChanges(series) ==
    LET nz == SelectSeq(series, LAMBDA x : x # 0)
    IN  Cardinality({i \in 1..(Len(nz) - 1) : Sign(nz[i]) # Sign(nz[i + 1])})

\* numpy.irr (NumPy < 1.20): a rate when the cashflow polynomial has a
\* positive real root, else nan.  By Descartes' rule there is none without
\* a sign change and exactly one with one sign change; with more sign
\* changes either can happen.
np_irr(series) ==
    IF SignChanges(series) = 0 THEN {"nan"}
    ELSE IF SignChanges(series) = 1 THEN {"rate"}
    ELSE {"rate", "nan"}

\* The values compute_cashflows can return as irr.  has_np_irr is
\* hasattr(np, "irr"): the installed NumPy decides it.
irr_outcomes(series, has_np_irr) ==
    IF has_np_irr THEN np_irr(series) ELSE {"nan"}

\* Every value compute_cashflows can return for these arguments.
compute_cashflows(events, prices, costs, discount_rate, has_np_irr) ==
    LET cf == cashflow_rows(events, prices, costs)
    IN  {[cf |-> cf,
          npv |-> [of |-> cf, rate |-> discount_rate],
          series |-> irr_series(cf),
          irr |-> o] : o \in irr_outcomes(irr_series(cf), has_np_irr)}

\* An uploaded events table: readable or not, and the columns it has.
\* f"{k}_factor"
factor_name(k) == k \o "_factor"

\* qmd in whole inches or NaN; the fractions are in tenths.
product_split_from_qmd(qmd) ==
    LET q == IF isna(qmd) THEN 7 ELSE qmd
    IN  IF q < 6 THEN [pulp |-> 9, cns |-> 1, saw |-> 0, export |-> 0]
        ELSE IF q < 8 THEN [pulp |-> 5, cns |-> 4, saw |-> 1, export |-> 0]
        ELSE IF q < 10 THEN [pulp |-> 3, cns |-> 4, saw |-> 3, export |-> 0]
        ELSE [pulp |-> 2, cns |-> 3, saw |-> 4, export |-> 1]

allocate_products(total_tons, split) ==
    [k \in Range(Products) |-> total_tons * split[k]]

\* supplied_events scaling by the factors of group "LP"
supplied_events_by_group(events, cal) ==
    [i \in DOMAIN events.rows |->
        [events.rows[i] EXCEPT !.tons =
            [k \in DOMAIN @ |-> @[k] * report_get_factor(cal, "LP", factor_name(k))]]]

\* Lines 108-114: a supplied event table [columns, rows], each row holding
\* its event, its year and the tons of the product columns the table has.
\* Scaled tons are in tenths of the supplied unit.
supplied_events(events, cal) ==
    [i \in DOMAIN events.rows |->
        [events.rows[i] EXCEPT !.tons =
            [k \in DOMAIN @ |-> @[k] * report_get_factor(cal, "ALL", factor_name(k))]]]

\* Lines 118-137: the three event rows of one stand summary row.  Tons are
\* in millionths (ten-thousandths x split tenths x factor tenths).
stand_events(r, columns, cal, species_col) ==
    LET age == IF "age" \in columns THEN r["age"] ELSE NaN
        group == IF species_col # "" /\ species_col \in columns THEN r[species_col]
                 ELSE "ALL"
        years == auto_event_years(age)
        split == product_split_from_qmd(r["qmd_in"])
        t1 == estimate_tons(r["ba_sqft_ac"], r["acres"], "first_thin", 28)
        t2 == estimate_tons(r["ba_sqft_ac"], r["acres"], "second_thin", 33)
        tf == estimate_tons(r["ba_sqft_ac"], r["acres"], "final", 28)
        row(evt, yr, t) ==
            [stand_id |-> r["stand_id"], event |-> evt, year |-> yr, group |-> group,
             tons |-> [k \in Range(Products) |->
                         allocate_products(t, split)[k] *
                         report_get_factor(cal, group, factor_name(k))]]
    IN  <<row("first_thin", years.y1, t1), row("second_thin", years.y2, t2),
          row("final", years.yf, tf)>>

\* Lines 116-138: the rows of every stand, in table order.
RECURSIVE auto_rows(_, _, _)
auto_rows(stands, cal, species_col) ==
    IF stands.rows = <<>> THEN <<>>
    ELSE auto_rows([stands EXCEPT !.rows = SubSeq(@, 1, Len(@) - 1)], cal, species_col)
         \o stand_events(stands.rows[Len(stands.rows)], stands.columns, cal, species_col)

\* Line 140: groupby(["event", "year"]) and the sum of each product column,
\* the keys in ascending order.
group_events(rows) ==
    LET keys == {<<rows[i].event, rows[i].year>> : i \in DOMAIN rows}
        \* the order of the event names
        event_rank(evt) == CASE evt = "final" -> 1 [] evt = "first_thin" -> 2 [] OTHER -> 3
        before(a, b) == \/ event_rank(a[1]) < event_rank(b[1])
                        \/ a[1] = b[1] /\ a[2] < b[2]
        place(key) == Cardinality({b \in keys : before(b, key)}) + 1
        key_at(n) == CHOOSE key \in keys : place(key) = n
        members(key) == {i \in DOMAIN rows : <<rows[i].event, rows[i].year>> = key}
    IN  [n \in 1..Cardinality(keys) |->
            [event |-> key_at(n)[1], year |-> key_at(n)[2],
             tons  |-> [k \in Range(Products) |->
                          SumOver([i \in members(key_at(n)) |-> rows[i].tons[k]],
                                  members(key_at(n)))]]]

\* Lines 104-140 of build_report_v3plus: the event table the report is
\* computed from, and in auto-schedule mode the per-stand rows behind it.
build_events(stands, events_csv, calibration_json, species_col) ==
    LET cal == report_load_calibration(calibration_json)
    IN  IF events_csv.given
        THEN [raised |-> FALSE, mode |-> "supplied", rows |-> <<>>,
              events |-> supplied_events(events_csv.doc, cal)]
        ELSE LET rows == auto_rows(stands, cal, species_col)
             IN  IF rows = <<>>
                 THEN [raised |-> TRUE, mode |-> "auto", rows |-> rows, events |-> <<>>]
                 ELSE [raised |-> FALSE, mode |-> "auto", rows |-> rows,
                       events |-> group_events(rows)]

EventColumns == {"event", "year", "pulp_t", "cns_t", "saw_t", "export_t"}

Raise(what) == [raised |-> TRUE, error |-> what, written |-> <<>>, stdout |-> <<>>]

\* build_report_v3plus, as far as its outcome and the inputs of the report
\* go: what it reads, where it raises, and the file it writes.
build_report_v3plus(stands, prices_json, events_csv, discount_rate, calibration_json, species_col) ==
    IF stands.rows = <<>> THEN Raise("EmptyDataError: stand summary")
    ELSE IF ~prices_json.doc.parses THEN Raise("JSONDecodeError: prices")
    ELSE IF prices_json.doc.value.type # "dict" THEN Raise("AttributeError: get")
    ELSE IF events_csv.given /\ ~events_csv.doc.readable THEN Raise("ParserError: events")
    ELSE IF events_csv.given /\ ~(EventColumns \subseteq events_csv.doc.columns)
    THEN Raise("KeyError: events column")
    ELSE LET raw_prices == prices_json.doc.value.items
             cal == report_load_calibration(calibration_json)
             html == [name   |-> "out_owner_report.html",
                      mode   |-> IF events_csv.given THEN "supplied" ELSE "auto",
                      stands |-> stands.rows,
                      prices |-> prices_of(raw_prices),
                      costs  |-> costs_of(raw_prices),
                      cal    |-> cal,
                      discount_rate |-> discount_rate]
         IN  [raised |-> FALSE, error |-> "", written |-> <<html>>,
              stdout |-> <<Line("Saved report")>>]

\* float(text) of a form field: the value in tenths, or not a number.
NotANumber == -997

parse_float(text) ==
    CASE text = "0.1"  -> 1
      [] text = "0"    -> 0
      [] text = "-0.1" -> -1
      [] text = "5"    -> 50
      [] OTHER         -> NotANumber

\* The command line of owner_report_build_v3plus.py (lines 229-240): an
\* empty argument stands for an absent optional path.
reporter_main(stands, prices_json, events_csv, discount, calibration_json, species_col) ==
    IF parse_float(discount) = NotANumber
    THEN [rc |-> 1, stdout |-> <<>>, stderr |-> <<Traceback("ValueError: discount")>>,
          written |-> <<>>]
    ELSE LET r == build_report_v3plus(stands, prices_json, events_csv,
                                      parse_float(discount), calibration_json, species_col)
         IN  IF r.raised
             THEN [rc |-> 1, stdout |-> <<>>, stderr |-> <<Traceback(r.error)>>,
                   written |-> <<>>]
             ELSE [rc |-> 0, stdout |-> r.stdout, stderr |-> <<>>, written |-> r.written]

----------------------------------------------------------------------------
(* app.py run_pipeline                                                     *)

ALLOWED_EXTS == {"xlsx", "xlsm", "csv", "json"}

\* filename.rsplit(".", 1)[1].lower() of the file names that occur
ext_of(filename) ==
    CASE filename = "tree.csv"    -> "csv"
      [] filename = "tree.txt"    -> "txt"
      [] filename = "prices.json" -> "json"
      [] filename = "prices"      -> ""
      [] filename = "cal.json"    -> "json"
      [] filename = "events.csv"  -> "csv"
      [] OTHER                    -> ""

allowed_file(filename) == ext_of(filename) \in ALLOWED_EXTS

\* An upload slot of the request: the file name ("" when no file was sent)
\* and what the file holds.
Upload(filename, doc) == [filename |-> filename, doc |-> doc]
Nothing == [parses |-> FALSE]
NoFile == Upload("", Nothing)

Unreadable == [readable |-> FALSE]
TreeDoc(df) == [readable |-> TRUE, df |-> df]

\* Rows the pipeline's tree tables are drawn from: a clean row, a row with
\* StandAcres = 0, and one row for each warning check.
PipelineRows == {SampleRows[1], SampleRows[4], SampleRows[5], SampleRows[6],
                 SampleRows[7], SampleRows[8]}

PipelineTables ==
    {Frame(cs, rows) : cs \in {Range(AllColumns), Range(AllColumns) \ {"StandID"}},
                       rows \in RowSeqs(PipelineRows)}

TreeUploads ==
    {NoFile, Upload("tree.txt", Unreadable), Upload("tree.csv", Unreadable)}
        \cup {Upload("tree.csv", TreeDoc(df)) : df \in PipelineTables}

PriceSheet == [k \in {"pulp", "saw", "logging_cost_per_ton_pulp", "consulting_fee_pct"} |->
                 CASE k = "pulp" -> 10 [] k = "saw" -> 30
                   [] k = "logging_cost_per_ton_pulp" -> 12 [] OTHER -> 10]

PricesUploads ==
    {NoFile, Upload("prices", Malformed), Upload("prices.json", Malformed),
     Upload("prices.json", Parsed(JsonDict(PriceSheet)))}

PipelineFactors == [g \in {"ALL", "LP"} |->
                      IF g = "LP" THEN [n \in {"ba_factor"} |-> MaxFactor]
                      ELSE [n \in {"tpa_factor", "pulp_factor"} |-> 9]]

CalibrationUploads ==
    {NoFile, Upload("cal.json", Malformed), Upload("cal.json", Parsed(JsonDict(PipelineFactors)))}

EventsUploads ==
    {NoFile, Upload("events.csv", [readable |-> TRUE, columns |-> EventColumns])}

Requests ==
    [treesum : TreeUploads, prices : PricesUploads, calibration : CalibrationUploads,
     events : EventsUploads,
     cruise_type : {"Plot", "Point", "Strip"},
     size_value : {"0.1", "0", "-0.1", "abc"},
     species_col : {"CalSpecies", "species_code"},
     discount : {"5", "abc"}]

NoReq == [treesum |-> NoFile]
NoResult == [error |-> "pending"]
NoError == "None"

\* the path a stage is given for an optional upload: "" unless a file with
\* an allowed name was sent
path_of(upload) ==
    IF upload.filename # "" /\ allowed_file(upload.filename) THEN PathTo(upload.doc)
    ELSE NoPath

\* the work directory after the stage wrote its files
with_written(fs, written) ==
    LET names == {written[i].name : i \in DOMAIN written}
    IN  [n \in DOMAIN fs \cup names |->
            IF n \in names THEN written[CHOOSE i \in DOMAIN written : written[i].name = n]
            ELSE fs[n]]

saved_uploads(r) ==
    LET ups == {u \in {r.treesum, r.prices, r.events, r.calibration} :
                  u.filename # "" /\ allowed_file(u.filename)}
    IN  [n \in {u.filename : u \in ups} |-> (CHOOSE u \in ups : u.filename = n).doc]

stage_result(stage, r) == [stage |-> stage, rc |-> r.rc, stdout |-> r.stdout, stderr |-> r.stderr]

failure(msg, r) == [error |-> msg, stdout |-> r.stdout, stderr |-> r.stderr]

\* Lines 51-87: read the request, reject it or save the uploads.
Request ==
    /\ pc = "idle"
    /\ \E r \in Requests :
         /\ req' = r
         /\ IF r.treesum.filename = "" \/ ~allowed_file(r.treesum.filename)
            THEN /\ result' = [error |-> "Please upload a TreeSum file (.xlsx/.xlsm/.csv)."]
                 /\ pc' = "done"
                 /\ files' = files
            ELSE IF r.prices.filename = "" \/ ~allowed_file(r.prices.filename)
            THEN /\ result' = [error |-> "Please upload a prices JSON file."]
                 /\ pc' = "done"
                 /\ files' = files
            ELSE IF parse_float(r.size_value) = NotANumber
            THEN /\ result' = [error |-> "Plot size (ac) or BAF must be numeric."]
                 /\ pc' = "done"
                 /\ files' = files
            ELSE /\ result' = result
                 /\ pc' = "validate"
                 /\ files' = saved_uploads(r)
    /\ UNCHANGED <<runs, call, ret, two_runs>>

\* StepValidate going on to aggregation whatever the validator's exit status
StepValidate_ignores_rc ==
    /\ pc = "validate"
    /\ LET run1 == validator_main(files[req.treesum.filename], CONTRACT)
       IN  /\ runs' = Append(runs, stage_result("validate", run1))
           /\ files' = with_written(files, run1.written)
           /\ result' = result
           /\ pc' = "aggregate"
    /\ UNCHANGED <<req, call, ret, two_runs>>

\* Lines 89-93
StepValidate ==
    /\ pc = "validate"
    /\ LET run1 == validator_main(files[req.treesum.filename], CONTRACT)
       IN  /\ runs' = Append(runs, stage_result("validate", run1))
           /\ files' = with_written(files, run1.written)
           /\ IF run1.rc # 0
              THEN result' = failure("Validator failed", run1) /\ pc' = "done"
              ELSE result' = result /\ pc' = "aggregate"
    /\ UNCHANGED <<req, call, ret, two_runs>>

\* Lines 95-102.  --calibration and --species_col are passed only with a
\* calibration file; size_val is str(float(size_value)).
StepAggregate ==
    /\ pc = "aggregate"
    /\ LET cal == path_of(req.calibration)
           run2 == aggregator_main(files["out_canopy_treelevel.csv"].df, req.cruise_type,
                                   parse_float(req.size_value), cal,
                                   IF cal.given THEN req.species_col ELSE "")
       IN  /\ runs' = Append(runs, stage_result("aggregate", run2))
           /\ files' = with_written(files, run2.written)
           /\ IF run2.rc # 0
              THEN result' = failure("Aggregator failed", run2) /\ pc' = "done"
              ELSE result' = result /\ pc' = "report"
    /\ UNCHANGED <<req, call, ret, two_runs>>

\* Lines 104-126
StepReport ==
    /\ pc = "report"
    /\ LET cal == path_of(req.calibration)
           run3 == reporter_main(files["out_stand_summary.csv"], PathTo(req.prices.doc),
                                 path_of(req.events), req.discount, cal,
                                 IF cal.given THEN req.species_col ELSE "")
       IN  /\ runs' = Append(runs, stage_result("report", run3))
           /\ files' = with_written(files, run3.written)
           /\ IF run3.rc # 0
              THEN result' = failure("Report builder failed", run3)
              ELSE result' = [error |-> NoError,
                              report_url |-> "out_owner_report.html",
                              files |-> DOMAIN files',
                              stdout |-> runs[1].stdout \o runs[2].stdout \o run3.stdout,
                              stderr |-> runs[1].stderr \o runs[2].stderr \o run3.stderr]
           /\ pc' = "done"
    /\ UNCHANGED <<req, call, ret, two_runs>>

----------------------------------------------------------------------------
(* app.py run_pipeline, two requests served at the same time               *)

\* The two requests in progress.
Runs == {1, 2}

\* Job ids (line 72): a time stamp and eight hex digits of a uuid4.  Two
\* jobs are taken to draw different ids.
JobIds == {"a1", "b2", "c3"}

\* work_path with one directory for every job
work_path_shared(uid, name) == <<"outputs", name>>

\* os.path.join(workdir, name) with workdir = OUT_DIR/uid (lines 73, 76-87)
work_path(uid, name) == <<uid, name>>

\* Requests of the concurrent runs: a clean table, a table with a warning
\* and a table with StandAcres = 0, with or without calibration, prices that
\* parse or not, a cruise type the aggregator knows or not.
ParTables ==
    {Frame(Range(AllColumns), <<SampleRows[1]>>),
     Frame(Range(AllColumns), <<SampleRows[5]>>),
     Frame(Range(AllColumns), <<SampleRows[4]>>)}

ParRequests ==
    [treesum : {NoFile} \cup {Upload("tree.csv", TreeDoc(df)) : df \in ParTables},
     prices : {Upload("prices.json", Malformed),
               Upload("prices.json", Parsed(JsonDict(PriceSheet)))},
     calibration : {NoFile, Upload("cal.json", Parsed(JsonDict(PipelineFactors)))},
     events : {NoFile},
     cruise_type : {"Plot", "Strip"},
     size_value : {"0.1"},
     species_col : {"CalSpecies"},
     discount : {"5"}]

\* A run before its request arrived.  read holds the runs whose files this
\* run has read, wrote the paths it has written.
NoJob == [pc |-> "idle", req |-> NoReq, uid |-> "", runs |-> <<>>, result |-> NoResult,
          read |-> {}, wrote |-> {}]

\* the files of a work directory, by name (os.listdir(workdir), line 116)
listdir(fs, uid) ==
    LET names == {p[2] : p \in {q \in DOMAIN fs : q[1] = uid}}
    IN  [n \in names |-> fs[work_path(uid, n)].doc]

\* the file system after run j wrote the named documents into its work
\* directory
write_files(fs, j, uid, docs) ==
    LET paths == {work_path(uid, n) : n \in DOMAIN docs}
        name_at(p) == CHOOSE n \in DOMAIN docs : work_path(uid, n) = p
    IN  [p \in DOMAIN fs \cup paths |->
            IF p \in paths THEN [writer |-> j, doc |-> docs[name_at(p)]] ELSE fs[p]]

docs_written(written) ==
    [n \in {written[i].name : i \in DOMAIN written} |->
        written[CHOOSE i \in DOMAIN written : written[i].name = n]]

\* the runs that wrote the files of a work directory
writers_of(fs, uid, names) == {fs[work_path(uid, n)].writer : n \in names}

\* Lines 51-87 of one of the two runs.
ParRequest(j) ==
    /\ jobs[j].pc = "idle"
    /\ \E r \in ParRequests, uid \in JobIds \ {jobs[k].uid : k \in Runs} :
         IF r.treesum.filename = "" \/ ~allowed_file(r.treesum.filename)
         THEN /\ jobs' = [jobs EXCEPT ![j].req = r, ![j].pc = "done",
                            ![j].result = [error |-> "Please upload a TreeSum file (.xlsx/.xlsm/.csv)."]]
              /\ disk' = disk
         ELSE IF r.prices.filename = "" \/ ~allowed_file(r.prices.filename)
         THEN /\ jobs' = [jobs EXCEPT ![j].req = r, ![j].pc = "done",
                            ![j].result = [error |-> "Please upload a prices JSON file."]]
              /\ disk' = disk
         ELSE IF parse_float(r.size_value) = NotANumber
         THEN /\ jobs' = [jobs EXCEPT ![j].req = r, ![j].pc = "done",
                            ![j].result = [error |-> "Plot size (ac) or BAF must be numeric."]]
              /\ disk' = disk
         ELSE /\ disk' = write_files(disk, j, uid, saved_uploads(r))
              /\ jobs' = [jobs EXCEPT ![j].req = r, ![j].pc = "validate", ![j].uid = uid,
                            ![j].wrote = {work_path(uid, n) : n \in DOMAIN saved_uploads(r)}]
    /\ UNCHANGED one_run

\* Lines 89-93 of one of the two runs.
ParValidate(j) ==
    /\ jobs[j].pc = "validate"
    /\ LET job == jobs[j]
           inputs == {job.req.treesum.filename}
           run1 == validator_main(disk[work_path(job.uid, job.req.treesum.filename)].doc,
                                  CONTRACT)
       IN  /\ disk' = write_files(disk, j, job.uid, docs_written(run1.written))
           /\ jobs' = [jobs EXCEPT
                ![j].runs = Append(job.runs, stage_result("validate", run1)),
                ![j].read = job.read \cup writers_of(disk, job.uid, inputs),
                ![j].wrote = job.wrote \cup
                    {work_path(job.uid, n) : n \in DOMAIN docs_written(run1.written)},
                ![j].result = IF run1.rc # 0 THEN failure("Validator failed", run1)
                              ELSE job.result,
                ![j].pc = IF run1.rc # 0 THEN "done" ELSE "aggregate"]
    /\ UNCHANGED one_run

\* Lines 95-102 of one of the two runs.
ParAggregate(j) ==
    /\ jobs[j].pc = "aggregate"
    /\ LET job == jobs[j]
           given == job.req.calibration.filename # "" /\ allowed_file(job.req.calibration.filename)
           inputs == {"out_canopy_treelevel.csv"} \cup
                     (IF given THEN {job.req.calibration.filename} ELSE {})
           cal == IF given
                  THEN PathTo(disk[work_path(job.uid, job.req.calibration.filename)].doc)
                  ELSE NoPath
           run2 == aggregator_main(disk[work_path(job.uid, "out_canopy_treelevel.csv")].doc.df,
                                   job.req.cruise_type, parse_float(job.req.size_value), cal,
                                   IF cal.given THEN job.req.species_col ELSE "")
       IN  /\ disk' = write_files(disk, j, job.uid, docs_written(run2.written))
           /\ jobs' = [jobs EXCEPT
                ![j].runs = Append(job.runs, stage_result("aggregate", run2)),
                ![j].read = job.read \cup writers_of(disk, job.uid, inputs),
                ![j].wrote = job.wrote \cup
                    {work_path(job.uid, n) : n \in DOMAIN docs_written(run2.written)},
                ![j].result = IF run2.rc # 0 THEN failure("Aggregator failed", run2)
                              ELSE job.result,
                ![j].pc = IF run2.rc # 0 THEN "done" ELSE "report"]
    /\ UNCHANGED one_run

\* Lines 104-126 of one of the two runs.
ParReport(j) ==
    /\ jobs[j].pc = "report"
    /\ LET job == jobs[j]
           given == job.req.calibration.filename # "" /\ allowed_file(job.req.calibration.filename)
           inputs == {"out_stand_summary.csv", job.req.prices.filename} \cup
                     (IF given THEN {job.req.calibration.filename} ELSE {})
           cal == IF given
                  THEN PathTo(disk[work_path(job.uid, job.req.calibration.filename)].doc)
                  ELSE NoPath
           run3 == reporter_main(disk[work_path(job.uid, "out_stand_summary.csv")].doc,
                                 PathTo(disk[work_path(job.uid, job.req.prices.filename)].doc),
                                 path_of(job.req.events), job.req.discount, cal,
                                 IF cal.given THEN job.req.species_col ELSE "")
           after == write_files(disk, j, job.uid, docs_written(run3.written))
       IN  /\ disk' = after
           /\ jobs' = [jobs EXCEPT
                ![j].runs = Append(job.runs, stage_result("report", run3)),
                ![j].read = job.read \cup writers_of(disk, job.uid, inputs),
                ![j].wrote = job.wrote \cup
                    {work_path(job.uid, n) : n \in DOMAIN docs_written(run3.written)},
                ![j].result =
                    IF run3.rc # 0 THEN failure("Report builder failed", run3)
                    ELSE [error |-> NoError,
                          report_url |-> "out_owner_report.html",
                          files |-> DOMAIN listdir(after, job.uid),
                          stdout |-> job.runs[1].stdout \o job.runs[2].stdout \o run3.stdout,
                          stderr |-> job.runs[1].stderr \o job.runs[2].stderr \o run3.stderr],
                ![j].pc = "done"]
    /\ UNCHANGED one_run

NoCall == [op |-> "none"]

Init ==
    /\ pc = "idle"
    /\ req = NoReq
    /\ files = <<>>
    /\ runs = <<>>
    /\ result = NoResult
    /\ call = NoCall
    /\ ret = NoCall
    /\ jobs = [j \in Runs |-> NoJob]
    /\ disk = <<>>

Next == Request \/ StepValidate \/ StepAggregate \/ StepReport

Spec == Init /\ [][Next]_vars

ParNext ==
    \E j \in Runs : ParRequest(j) \/ ParValidate(j) \/ ParAggregate(j) \/ ParReport(j)

SpecPar == Init /\ [][ParNext]_vars

----------------------------------------------------------------------------
(* The functions called on their own, over bounded arguments               *)

MaxEvents == 2        \* rows of an event table handed to compute_cashflows

\* JSON documents a calibration lookup is made in
JsonValues == {JsonDict(f) : f \in FactorSets} \cup {JsonList}

\* One call is made, from the initial state; the run's variables stay put.
Calling == call = NoCall /\ UNCHANGED <<pc, req, files, runs, result, two_runs>>

Call_get_factor ==
    /\ Calling
    /\ \E factors \in JsonValues, group \in {"ALL", "LP", "SP"},
       name \in FactorNames \cup {"qmd_factor"} :
        /\ call' = [op |-> "get_factor", factors |-> factors, group |-> group, name |-> name]
        /\ ret' = [value |-> get_factor(factors, group, name)]

Call_report_get_factor ==
    /\ Calling
    /\ \E factors \in JsonValues, group \in {"ALL", "LP", "SP"},
       name \in FactorNames \cup {"qmd_factor"} :
        /\ call' = [op |-> "report_get_factor", factors |-> factors, group |-> group,
                    name |-> name]
        /\ ret' = [value |-> report_get_factor(factors, group, name)]

Call_validator_main ==
    /\ Calling
    /\ \E df \in RawTables, contract \in Contracts :
        /\ call' = [op |-> "validator_main", df |-> df, contract |-> contract]
        /\ ret' = validator_main(TreeDoc(df), contract)

\* Canonical tables as the validator writes them, and the same tables
\* with the stand_id or the dbh_in column removed.
drop_column(df, c) ==
    [columns |-> SelectSeq(df.columns, LAMBDA x : x # c),
     rows    |-> [i \in DOMAIN df.rows |->
                    [d \in DOMAIN df.rows[i] \ {c} |-> df.rows[i][d]]]]

CanopyBase ==
    {csv_frame(remap(normalize(Frame(Range(AllColumns), rows), CONTRACT), CONTRACT),
               CanopyTextColumns) :
        rows \in RowSeqs({SampleRows[1], SampleRows[2], SampleRows[3]})}

CanopyTables ==
    CanopyBase \cup {drop_column(df, "stand_id") : df \in CanopyBase}
               \cup {drop_column(df, "dbh_in") : df \in CanopyBase}

\* plot size in tenths of an acre, or BAF, or None
SizeValues == {None, -1, 0, 1}

AggregatorCalibrations ==
    {NoPath, PathTo(Malformed), PathTo(Parsed(JsonList)),
     PathTo(Parsed(JsonDict(PipelineFactors)))}

Call_aggregate ==
    /\ Calling
    /\ \E df \in CanopyTables, cruise_type \in {"Plot", "Point", "Strip"},
       size \in SizeValues, as_baf \in BOOLEAN,
       calibration_json \in AggregatorCalibrations,
       species_col \in {"", "species_code", "CalSpecies"} :
        LET plot_size_ac == IF as_baf THEN None ELSE size
            baf == IF as_baf THEN size ELSE None
        IN  /\ call' = [op |-> "aggregate", df |-> df, cruise_type |-> cruise_type,
                        plot_size_ac |-> plot_size_ac, baf |-> baf,
                        calibration_json |-> calibration_json,
                        species_col |-> species_col]
            /\ ret' = aggregate(df, cruise_type, plot_size_ac, baf, calibration_json,
                                species_col)

Ages == {NaN} \cup (0..MaxHalfAge)

Call_auto_event_years ==
    /\ Calling
    /\ \E age \in Ages :
        /\ call' = [op |-> "auto_event_years", age |-> age]
        /\ ret' = auto_event_years(age)

\* Event rows: a year and the tons of each product.
TonsChoices ==
    {[k \in Range(Products) |-> 0],
     [k \in Range(Products) |-> IF k = "pulp" THEN 1 ELSE 0],
     [k \in Range(Products) |-> IF k = "saw" THEN 1 ELSE 0]}

MaxHorizon == 2       \* the latest event year is TODAY_YEAR + MaxHorizon

EventRows == [year : (TODAY_YEAR - 1)..(TODAY_YEAR + MaxHorizon), tons : TonsChoices]

EventTables == UNION {[1..n -> EventRows] : n \in 0..MaxEvents}

PriceSheets == {PriceSheet, <<>>}

Call_compute_cashflows ==
    /\ Calling
    /\ \E events \in EventTables, raw_prices \in PriceSheets, has_np_irr \in BOOLEAN :
        /\ call' = [op |-> "compute_cashflows", events |-> events,
                    raw_prices |-> raw_prices, has_np_irr |-> has_np_irr]
        /\ ret' \in compute_cashflows(events, prices_of(raw_prices), costs_of(raw_prices),
                                      50, has_np_irr)

MaxBasalArea == 130   \* largest basal area, sq ft per acre
MaxAcres == 2         \* largest stand area, acres

BasalAreas == {NaN} \cup (-1..MaxBasalArea)
Acreages == {NaN} \cup (-1..MaxAcres)
EventTypes == {"first_thin", "second_thin", "final"}

Call_estimate_tons ==
    /\ Calling
    /\ \E ba \in BasalAreas, acres \in Acreages, event_type \in EventTypes,
       removal_pct \in {28, 33} :
        /\ call' = [op |-> "estimate_tons", ba |-> ba, acres |-> acres,
                    event_type |-> event_type, removal_pct |-> removal_pct]
        /\ ret' = [value |-> estimate_tons(ba, acres, event_type, removal_pct)]

MaxStands == 2        \* rows of a stand summary handed to the report engine

\* Stand summary rows as stand_aggregator.py writes them, the numbers whole.
SummaryColumns == {"stand_id", "acres", "ba_sqft_ac", "qmd_in", "calibration_group"}

StandChoices ==
    {[stand_id |-> "S1", acres |-> 2, ba_sqft_ac |-> 100, qmd_in |-> 9,
      calibration_group |-> "LP"],
     [stand_id |-> "S2", acres |-> 1, ba_sqft_ac |-> 80, qmd_in |-> NaN,
      calibration_group |-> "ALL"],
     [stand_id |-> "S3", acres |-> 1, ba_sqft_ac |-> 40, qmd_in |-> 5,
      calibration_group |-> "SP"],
     [stand_id |-> "S4", acres |-> NaN, ba_sqft_ac |-> 100, qmd_in |-> 12,
      calibration_group |-> "LP"]}

\* Stand summaries of up to MaxStands rows, and the same tables with an
\* age column, in half-years.
StandTables ==
    LET with_age(r, age) ==
            [c \in SummaryColumns \cup {"age"} |-> IF c = "age" THEN age ELSE r[c]]
    IN
    UNION {{[columns |-> SummaryColumns, rows |-> rows] : rows \in [1..n -> StandChoices]}
           \cup {[columns |-> SummaryColumns \cup {"age"},
                  rows |-> [i \in 1..n |-> with_age(rows[i], IF i = 1 THEN 40 ELSE NaN)]] :
                    rows \in [1..n -> StandChoices]} : n \in 0..MaxStands}

ReportCalibrations ==
    {NoPath, PathTo(Malformed)} \cup {PathTo(Parsed(v)) : v \in JsonValues}

SpeciesColumns == {"", "species_code", "calibration_group"}

Call_build_events_auto ==
    /\ Calling
    /\ \E stands \in StandTables, calibration_json \in ReportCalibrations,
       species_col \in SpeciesColumns :
        /\ call' = [op |-> "build_events", mode |-> "auto", stands |-> stands,
                    calibration_json |-> calibration_json, species_col |-> species_col]
        /\ ret' = build_events(stands, NoPath, calibration_json, species_col)

MaxSupplied == 2      \* rows of a supplied event table

\* Rows of supplied event tables: years out of order, and two rows that
\* share event and year.
SuppliedRows ==
    {[event |-> "final", year |-> TODAY_YEAR + 9,
      tons |-> [k \in Range(Products) |-> IF k = "pulp" THEN 3 ELSE 2]],
     [event |-> "first_thin", year |-> TODAY_YEAR + 1,
      tons |-> [k \in Range(Products) |-> IF k = "saw" THEN 0 ELSE 5]],
     [event |-> "final", year |-> TODAY_YEAR + 9,
      tons |-> [k \in Range(Products) |-> 1]]}

\* Supplied tables of up to MaxSupplied rows, with every product column or
\* without export_t.
SuppliedTables ==
    LET only_columns(r, columns) ==
            [r EXCEPT !.tons = [k \in {p \in DOMAIN @ : (p \o "_t") \in columns} |-> @[k]]]
    IN
    UNION {{[columns |-> cs, rows |-> [i \in 1..n |-> only_columns(rows[i], cs)]] :
              rows \in [1..n -> SuppliedRows],
              cs \in {EventColumns, EventColumns \ {"export_t"}}} : n \in 0..MaxSupplied}

Call_build_events_supplied ==
    /\ Calling
    /\ \E events \in SuppliedTables, calibration_json \in ReportCalibrations,
       species_col \in SpeciesColumns :
        LET stands == [columns |-> SummaryColumns,
                       rows |-> <<CHOOSE r \in StandChoices : r["stand_id"] = "S1">>]
        IN  /\ call' = [op |-> "build_events", mode |-> "supplied", stands |-> stands,
                        events |-> events, calibration_json |-> calibration_json,
                        species_col |-> species_col]
            /\ ret' = build_events(stands, PathTo(events), calibration_json, species_col)

FnNext ==
    \/ Call_get_factor
    \/ Call_report_get_factor
    \/ Call_validator_main
    \/ Call_aggregate
    \/ Call_auto_event_years
    \/ Call_compute_cashflows
    \/ Call_estimate_tons
    \/ Call_build_events_auto
    \/ Call_build_events_supplied

SpecFn == Init /\ [][FnNext]_vars

----------------------------------------------------------------------------
(* Properties                                                              *)

StageOrder == <<"validate", "aggregate", "report">>
FailureMessage == <<"Validator failed", "Aggregator failed", "Report builder failed">>

\* the validation report a finished validator printed
HasReport == runs # <<>> /\ runs[1].rc = 0
ImportReport == runs[1].stdout[1]

\* C1: whenever the validator's report holds a fatal error, the validation
\* stage reports failure and neither the aggregation stage nor the report
\* stage is started.
C1_FatalErrorHaltsRun ==
    (HasReport /\ ImportReport.errors # <<>>) =>
        /\ runs[1].rc # 0
        /\ Len(runs) = 1

\* C2: the stages run in the order validate, aggregate, report, each only
\* after the one before it succeeded; a failing stage ends the run with that
\* stage's stdout and stderr and no later stage; the success bundle exists
\* only after three successes.
C2_StageOrder ==
    /\ Len(runs) <= 3
    /\ \A i \in DOMAIN runs :
         /\ runs[i].stage = StageOrder[i]
         /\ i > 1 => runs[i - 1].rc = 0
         /\ runs[i].rc # 0 =>
              /\ i = Len(runs)
              /\ pc = "done"
              /\ result.error = FailureMessage[i]
              /\ result.stdout = runs[i].stdout
              /\ result.stderr = runs[i].stderr
              /\ "report_url" \notin DOMAIN result
    /\ "report_url" \in DOMAIN result =>
         /\ Len(runs) = 3
         /\ \A i \in DOMAIN runs : runs[i].rc = 0
         /\ "files" \in DOMAIN result
    /\ (pc = "done" /\ Len(runs) = 3 /\ runs[3].rc = 0) => "report_url" \in DOMAIN result

C2_Witness ==
    /\ pc = "done"
    /\ Len(runs) = 3
    /\ result.error = NoError
    /\ "out_owner_report.html" \in result.files

\* The resolution chain as the specification states it.
HasEntry(factors, group, name) ==
    /\ factors.type = "dict"
    /\ group \in DOMAIN factors.items
    /\ name \in DOMAIN factors.items[group]

Resolved(factors, group, name) ==
    IF HasEntry(factors, group, name) THEN factors.items[group][name]
    ELSE IF HasEntry(factors, "ALL", name) THEN factors.items["ALL"][name]
    ELSE 10

\* C3: get_factor returns the entry of the exact group when there is one,
\* else the entry of "ALL" when there is one, else 1.0; and the aggregator's
\* and the report engine's copies agree.
C3_FactorResolution ==
    call.op \in {"get_factor", "report_get_factor"} =>
        /\ ret.value = Resolved(call.factors, call.group, call.name)
        /\ ret.value = get_factor(call.factors, call.group, call.name)
        /\ ret.value = report_get_factor(call.factors, call.group, call.name)

C3_Witness ==
    /\ call.op = "get_factor"
    /\ call.factors = JsonDict([g \in {"LP"} |-> [n \in {"ba_factor"} |-> MaxFactor]])
    /\ call.group = "SP"
    /\ call.name = "ba_factor"
    /\ ret.value = 10

RECURSIVE SumTrees(_)
SumTrees(out) == IF out = <<>> THEN 0 ELSE Head(out).trees_observed + SumTrees(Tail(out))

AggregateReturned == call.op = "aggregate" /\ ~ret.raised

\* C4: aggregate counts every input row, those without stand id included,
\* in exactly one stand group: the trees_observed of the summary rows add
\* up to the number of input rows, with one summary row per stand id.
C4_EveryRowCounted ==
    AggregateReturned =>
        /\ SumTrees(ret.out) = Len(call.df.rows)
        /\ \A i, j \in DOMAIN ret.out : ret.out[i].stand_id = ret.out[j].stand_id => i = j

InvalidSize(x) == x = None \/ x <= 0

\* C5: aggregate raises and writes no stand summary whenever the size of
\* the selected cruise type is missing or not > 0, or the cruise type is
\* neither Plot nor Point, for every input table.
C5_InvalidCruiseIsFatal ==
    (/\ call.op = "aggregate"
     /\ \/ call.cruise_type \notin {"Plot", "Point"}
        \/ call.cruise_type = "Plot" /\ InvalidSize(call.plot_size_ac)
        \/ call.cruise_type = "Point" /\ InvalidSize(call.baf))
    => (ret.raised /\ ret.written = <<>>)

\* C6: for every stand age, missing or above the final-harvest age
\* included, the event years satisfy y1 < y2 < yf and y1 >= current year.
C6_YearsIncrease ==
    call.op = "auto_event_years" =>
        /\ ret.y1 < ret.y2
        /\ ret.y2 < ret.yf
        /\ ret.y1 >= TODAY_YEAR

C6_Witness ==
    /\ call.op = "auto_event_years"
    /\ call.age > 2 * final_age
    /\ ret.y1 = TODAY_YEAR
    /\ ret.yf = TODAY_YEAR + 2

\* C7: the IRR compute_cashflows returns is never an undefined number: a
\* series without sign change gives an explicit "no solution", a series
\* with a sign change gives a rate.
C7_IrrDefined ==
    call.op = "compute_cashflows" =>
        /\ ret.irr # "nan"
        /\ SignChanges(ret.series) = 0 => ret.irr = "no solution"
        /\ SignChanges(ret.series) > 0 => ret.irr = "rate"

MalformedUpload(u) == u.filename # "" /\ allowed_file(u.filename) /\ ~u.doc.parses

\* C8: a malformed calibration or price document fails no stage: each
\* stage ends as it does when the document is the empty one.
C8_TolerantDocuments ==
    \A i \in DOMAIN runs :
        /\ (runs[i].stage = "aggregate" /\ MalformedUpload(req.calibration)) =>
              runs[i].rc = aggregator_main(files["out_canopy_treelevel.csv"].df,
                                           req.cruise_type, parse_float(req.size_value),
                                           PathTo(Parsed(EmptyFactors)), req.species_col).rc
        /\ (runs[i].stage = "report" /\ MalformedUpload(req.prices)) =>
              runs[i].rc = reporter_main(files["out_stand_summary.csv"],
                                         PathTo(Parsed(JsonDict(<<>>))), path_of(req.events),
                                         req.discount, path_of(req.calibration),
                                         req.species_col).rc

ValidatorCalled == call.op = "validator_main"
MissingRequired == {c \in Range(call.contract.required_columns) : c \notin Cols(call.df)}
MissingColumnErrors == SelectSeq(ret.stdout[1].errors, LAMBDA e : e.kind = "missing_column")
IndexIn(seq, x) == CHOOSE i \in DOMAIN seq : seq[i] = x

\* one missing-column error per absent required column, in contract order
OneErrorPerMissingColumn ==
    /\ Len(MissingColumnErrors) = Cardinality(MissingRequired)
    /\ \A c \in MissingRequired : \E i \in DOMAIN MissingColumnErrors :
            MissingColumnErrors[i].column = c
    /\ \A i, j \in DOMAIN MissingColumnErrors :
            i < j => IndexIn(call.contract.required_columns, MissingColumnErrors[i].column)
                       < IndexIn(call.contract.required_columns, MissingColumnErrors[j].column)

HasBadAcres(df) ==
    "StandAcres" \in Cols(df)
        /\ \E i \in DOMAIN df.rows : df.rows[i]["StandAcres"] # NaN /\ df.rows[i]["StandAcres"] <= 0

\* C9 as stated: one fatal error per absent required column, in contract
\* order, and for a table missing only StandID exactly one error in the
\* errors list, naming StandID, with no detected stands.
C9_Original ==
    ValidatorCalled =>
        /\ OneErrorPerMissingColumn
        /\ MissingRequired = {"StandID"} =>
              /\ Len(ret.stdout[1].errors) = 1
              /\ ret.stdout[1].errors[1].column = "StandID"
              /\ ret.stdout[1].stands_detected = <<>>

\* C9 (amended): one missing-column error per absent required column, in
\* contract order; for a table missing only StandID exactly one error names
\* a missing column, it names StandID, and no stands are detected; it is the
\* only error of the list when no StandAcres value is <= 0.
C9_MissingColumnErrors ==
    ValidatorCalled =>
        /\ OneErrorPerMissingColumn
        /\ MissingRequired = {"StandID"} =>
              /\ Len(MissingColumnErrors) = 1
              /\ ret.stdout[1].errors[1] = MissingError("StandID")
              /\ ret.stdout[1].stands_detected = <<>>
              /\ ~HasBadAcres(call.df) => Len(ret.stdout[1].errors) = 1

C9_Witness ==
    /\ ValidatorCalled
    /\ MissingRequired = {"StandID"}
    /\ Len(call.df.rows) = MaxRows
    /\ ~HasBadAcres(call.df)
    /\ Len(ret.stdout[1].errors) = 1

\* the warning-class checks, on the uploaded table
OutsideRange(df, c, lo, hi) ==
    c \in Cols(df) /\ \E i \in DOMAIN df.rows :
        df.rows[i][c] # NaN /\ (df.rows[i][c] < lo \/ df.rows[i][c] > hi)

TopAboveDbh(df) ==
    {"TopDIB", "DBH"} \subseteq Cols(df) /\ \E i \in DOMAIN df.rows :
        /\ df.rows[i]["TopDIB"] # NaN
        /\ df.rows[i]["DBH"] # NaN
        /\ df.rows[i]["TopDIB"] > df.rows[i]["DBH"]

OtherCruiseType(df) ==
    "CruiseType" \in Cols(df) /\ \E i \in DOMAIN df.rows :
        df.rows[i]["CruiseType"] \notin {"Plot", "Point"}

WarningChecks(df) ==
    (IF OutsideRange(df, "DBH", 1, 60) THEN {"Some DBH values are outside 1-60 inches"} ELSE {})
    \cup (IF TopAboveDbh(df) THEN {"Some TopDIB > DBH rows found"} ELSE {})
    \cup (IF OutsideRange(df, "Defect", 0, 100) THEN {"Some Defect values outside 0-100%"} ELSE {})
    \cup (IF OtherCruiseType(df)
          THEN {"CruiseType contains values other than 'Plot' or 'Point'"} ELSE {})

Uploaded == req.treesum.doc.df

\* C10: the DBH, TopDIB, Defect and CruiseType checks add a warning each
\* and never an error, StandAcres <= 0 is the only domain check adding an
\* error; a table with all required columns that violates only warning
\* checks has no errors, its validation succeeds, the run goes on to
\* aggregation, and its warnings are in the report text handed back: the
\* report the validator prints, the report file, and the stdout of the
\* success bundle.
C10_WarningsNeverHalt ==
    HasReport =>
        /\ \A e \in Range(ImportReport.errors) : e.kind = "missing_column" \/ e = AcresError
        /\ (AcresError \in Range(ImportReport.errors)) <=> HasBadAcres(Uploaded)
        /\ Range(ImportReport.warnings) = WarningChecks(Uploaded)
        /\ Len(ImportReport.warnings) = Cardinality(WarningChecks(Uploaded))
        /\ (Range(CONTRACT.required_columns) \subseteq Cols(Uploaded) /\ ~HasBadAcres(Uploaded)) =>
              /\ ImportReport.errors = <<>>
              /\ pc = "aggregate" \/ Len(runs) >= 2
              /\ files["out_import_report.json"].report.warnings = ImportReport.warnings
              /\ "report_url" \in DOMAIN result =>
                    \E i \in DOMAIN result.stdout :
                        /\ result.stdout[i].kind = "import_report"
                        /\ Range(result.stdout[i].warnings) = WarningChecks(Uploaded)

C10_Witness ==
    /\ HasReport
    /\ Range(CONTRACT.required_columns) \subseteq Cols(Uploaded)
    /\ ~HasBadAcres(Uploaded)
    /\ OutsideRange(Uploaded, "DBH", 1, 60)
    /\ TopAboveDbh(Uploaded)
    /\ "report_url" \in DOMAIN result

----------------------------------------------------------------------------
(* Two concurrent runs                                                     *)

\* What run_pipeline returns for request r when no other run is served:
\* the stages applied one after the other to a work directory of its own.
run_alone(r) ==
    IF r.treesum.filename = "" \/ ~allowed_file(r.treesum.filename)
    THEN [error |-> "Please upload a TreeSum file (.xlsx/.xlsm/.csv)."]
    ELSE IF r.prices.filename = "" \/ ~allowed_file(r.prices.filename)
    THEN [error |-> "Please upload a prices JSON file."]
    ELSE IF parse_float(r.size_value) = NotANumber
    THEN [error |-> "Plot size (ac) or BAF must be numeric."]
    ELSE
    LET cal == path_of(r.calibration)
        col == IF cal.given THEN r.species_col ELSE ""
        fs0 == saved_uploads(r)
        run1 == validator_main(fs0[r.treesum.filename], CONTRACT)
        fs1 == with_written(fs0, run1.written)
        run2 == aggregator_main(fs1["out_canopy_treelevel.csv"].df, r.cruise_type,
                                parse_float(r.size_value), cal, col)
        fs2 == with_written(fs1, run2.written)
        run3 == reporter_main(fs2["out_stand_summary.csv"], PathTo(r.prices.doc),
                              path_of(r.events), r.discount, cal, col)
        fs3 == with_written(fs2, run3.written)
    IN  IF run1.rc # 0 THEN failure("Validator failed", run1)
        ELSE IF run2.rc # 0 THEN failure("Aggregator failed", run2)
        ELSE IF run3.rc # 0 THEN failure("Report builder failed", run3)
        ELSE [error |-> NoError,
              report_url |-> "out_owner_report.html",
              files |-> DOMAIN fs3,
              stdout |-> run1.stdout \o run2.stdout \o run3.stdout,
              stderr |-> run1.stderr \o run2.stderr \o run3.stderr]

(* C11: two runs served at the same time are independent.  Every file a   *)
(* run writes lies under its own work directory, no file is written by     *)
(* both runs, a run reads only files it wrote itself, and when a run ends  *)
(* it returns what it returns when served alone, whatever the order in     *)
(* which the stages of the two runs were taken.                            *)
C11_RunsIndependent ==
    \A j \in Runs :
        /\ \A p \in jobs[j].wrote : p[1] = jobs[j].uid
        /\ \A k \in Runs \ {j} : jobs[j].wrote \cap jobs[k].wrote = {}
        /\ \A p \in DOMAIN disk : disk[p].writer = j => p \in jobs[j].wrote
        /\ jobs[j].read \subseteq {j}
        /\ jobs[j].pc = "done" => jobs[j].result = run_alone(jobs[j].req)

\* Both runs are past aggregation and neither has finished; they serve
\* different requests and each has read files.
C11_Witness ==
    /\ jobs[1].pc = "report" /\ jobs[2].pc = "report"
    /\ jobs[1].req # jobs[2].req
    /\ jobs[1].read = {1} /\ jobs[2].read = {2}
    /\ jobs[1].req.treesum = jobs[2].req.treesum
    /\ jobs[1].req.calibration # jobs[2].req.calibration

----------------------------------------------------------------------------
(* estimate_tons                                                           *)

(* C13: estimate_tons returns 0 tons for every event type whenever         *)
(* basal_area or acres is missing or not positive; otherwise a final event *)
(* returns clamp(basal_area x 1.2, 60, 150) x acres and a thinning returns *)
(* basal_area x removal_fraction x 0.12 x acres.                           *)
C13_EstimateTons ==
    call.op = "estimate_tons" =>
        IF isna(call.ba) \/ isna(call.acres) \/ call.ba <= 0 \/ call.acres <= 0
        THEN ret.value = 0
        ELSE IF call.event_type = "final"
        THEN ret.value = Max(600, Min(1500, call.ba * 12)) * call.acres * 1000
        ELSE ret.value = call.ba * call.removal_pct * 12 * call.acres

----------------------------------------------------------------------------
(* The event schedule of the report                                        *)

\* the calibration document the report engine works with
ReportFactors(calibration_json) ==
    IF calibration_json.given /\ calibration_json.doc.parses
    THEN calibration_json.doc.value ELSE JsonDict(<<>>)

EventOf(e) == CASE e = 1 -> "first_thin" [] e = 2 -> "second_thin" [] OTHER -> "final"

RemovalOf(e) == IF e = 2 THEN 33 ELSE 28

\* tons of product k the stand row r yields in its e-th event, before
\* calibration
Unscaled(r, e, k) ==
    estimate_tons(r["ba_sqft_ac"], r["acres"], EventOf(e), RemovalOf(e))
        * product_split_from_qmd(r["qmd_in"])[k]

(* C12: in auto-schedule mode, for every stand summary row and every       *)
(* product, the tons of that product in each of the stand's three events   *)
(* are the allocated tons times the product factor resolved (exact group,  *)
(* then "ALL", then 1.0) with the stand's calibration_group as group key.  *)
C12_StandGroupFactors ==
    (call.op = "build_events" /\ call.mode = "auto" /\ ~ret.raised) =>
        \A i \in DOMAIN call.stands.rows : \A e \in 1..3 : \A k \in Range(Products) :
            LET r == call.stands.rows[i]
                row == ret.rows[3 * (i - 1) + e]
            IN  /\ row.stand_id = r["stand_id"]
                /\ row.event = EventOf(e)
                /\ row.tons[k] =
                       Unscaled(r, e, k) * Resolved(ReportFactors(call.calibration_json),
                                                    r["calibration_group"], factor_name(k))

\* the same statement for the calls whose species_col names the
\* calibration_group column
C12_WhenColumnNamed ==
    (call.op = "build_events" /\ call.mode = "auto"
        /\ call.species_col = "calibration_group") => C12_StandGroupFactors

(* C14: in supplied-schedule mode the event table is used as it is but for *)
(* product scaling: as many rows, in the same order, with the same event   *)
(* and year, and the tons of each product column multiplied by the factor  *)
(* "ALL" has for that product (1.0 when it has none), whatever other       *)
(* groups the calibration set holds and whatever species_col is.           *)
C14_SuppliedScheduleVerbatim ==
    (call.op = "build_events" /\ call.mode = "supplied") =>
        /\ ~ret.raised
        /\ Len(ret.events) = Len(call.events.rows)
        /\ \A i \in DOMAIN call.events.rows :
            LET given == call.events.rows[i]
                used == ret.events[i]
                factors == ReportFactors(call.calibration_json)
            IN  /\ used.year = given.year
                /\ used.event = given.event
                /\ DOMAIN used.tons = DOMAIN given.tons
                /\ \A k \in DOMAIN given.tons :
                      used.tons[k] = given.tons[k] *
                          (IF HasEntry(factors, "ALL", factor_name(k))
                           THEN factors.items["ALL"][factor_name(k)] ELSE 10)

\* A supplied table of two rows with the later year first, sharing event
\* and year, scaled under a calibration set whose "LP" and "ALL" pulp
\* factors differ, with a species_col given.
C14_Witness ==
    /\ call.op = "build_events" /\ call.mode = "supplied"
    /\ Len(call.events.rows) = 2
    /\ call.events.rows[1].year >= call.events.rows[2].year
    /\ call.events.rows[1].tons["pulp"] = 3
    /\ call.species_col = "calibration_group"
    /\ HasEntry(ReportFactors(call.calibration_json), "ALL", "pulp_factor")
    /\ HasEntry(ReportFactors(call.calibration_json), "LP", "pulp_factor")
    /\ ReportFactors(call.calibration_json).items["LP"]["pulp_factor"]
         # ReportFactors(call.calibration_json).items["ALL"]["pulp_factor"]
    /\ ret.events[1].tons["pulp"] = 27

=============================================================================
